---- MODULE Spec2Model ----
(***************************************************************************)
(* obspy.imaging.spectrogram: nearestPow2() and spectrogram().             *)
(*                                                                         *)
(* Numbers.  Python floats are modelled exactly on the inputs enumerated:  *)
(*   - arguments of nearestPow2 are fixed-point integers in units of 1/FP, *)
(*     FP = 2^FPBits, so 3 is 3*FP and npts/8.0 is (FP*npts) \div 8;       *)
(*   - wlen is held in hundredths of a second, per_lap and clip in tenths; *)
(*   - the time vector is held in units of 1/(2*|Fs|) s and the frequency  *)
(*     vector in units of |Fs|/(2*pad_to) Hz, so bin positions and         *)
(*     half-bin widths are integers;                                       *)
(*   - amplitude values are extended reals (finite, -inf, +inf, nan),      *)
(*     because 10*log10(0) is -inf in numpy.                               *)
(* One call of spectrogram() runs on one thread; pc is its position.       *)
(***************************************************************************)
EXTENDS Integers, Sequences, FiniteSets, TLC

VARIABLES
    frame,        \* per thread: arguments, locals, position and result of its call
    mplVersion,   \* obspy.core.util.MATPLOTLIB_VERSION
    figs,         \* pyplot's figure registry: figure number -> its subplot(111)
    gcf,          \* pyplot's current figure number (0: none)
    callerAx,     \* per thread: the Axes object its caller may pass as axes=
    nperr,        \* per thread: numpy's floating-point error setting
    nperr0,       \* the setting of each thread before any call started
    drawn,        \* plt.draw() calls made: [by, fig]
    saved,        \* fig.savefig() calls made: [by, fig, outfile, format]
    shown,        \* plt.show() calls made: [by, figs]
    px, pres,     \* nearestPow2 applied on its own: argument, result
    bfreq, btime  \* the bin positions given to the axis binner applied on its own

vars == <<frame, mplVersion, figs, gcf, callerAx, nperr, nperr0, drawn, saved,
          shown, px, pres, bfreq, btime>>

callVars == <<frame, mplVersion, figs, gcf, callerAx, nperr, nperr0, drawn,
              saved, shown>>

others == <<px, pres, bfreq, btime>>

----------------------------------------------------------------------------
(* Bounds of the model *)

FPBits == 6

MaxExp == 10

MaxX == 16

MaxLen == 3

MaxPos == 4

FP == 2 ^ FPBits

Threads == {1, 2}

----------------------------------------------------------------------------
(* Arithmetic *)

Abs(v) == IF v < 0 THEN -v ELSE v

Last(s) == s[Len(s)]

\* 2^e as a fixed-point number, e >= -FPBits
Pow2FP(e) == 2 ^ (e + FPBits)

Exps == (-FPBits)..MaxExp

\* M.floor(np.log2(x)) for x > 0
Log2Floor(x) == CHOOSE e \in Exps : Pow2FP(e) <= x /\ x < Pow2FP(e + 1)

\* M.ceil(np.log2(x)) for x > 0
Log2Ceil(x) == CHOOSE e \in Exps : Pow2FP(e) >= x /\ (e = -FPBits \/ Pow2FP(e - 1) < x)

nearestPow2Le(x) ==
    LET a == Pow2FP(Log2Ceil(x))
        b == Pow2FP(Log2Floor(x))
    IN  IF Abs(a - x) <= Abs(b - x) THEN a ELSE b

nearestPow2(x) ==
    LET a == Pow2FP(Log2Ceil(x))
        b == Pow2FP(Log2Floor(x))
    IN  IF Abs(a - x) < Abs(b - x) THEN a ELSE b

\* int() of a non-negative fixed-point number: truncation
int(v) == v \div FP

\* Python's comparison of two version lists of length 3
VersionGE(a, b) ==
    \/ a[1] > b[1]
    \/ a[1] = b[1] /\ a[2] > b[2]
    \/ a[1] = b[1] /\ a[2] = b[2] /\ a[3] >= b[3]

----------------------------------------------------------------------------
(* IEEE extended reals *)

Fin(v) == [k |-> "fin", v |-> v]

NInf == [k |-> "-inf", v |-> 0]

PInf == [k |-> "+inf", v |-> 0]

NaN == [k |-> "nan", v |-> 0]

ENeg(a) ==
    CASE a.k = "fin" -> Fin(-a.v)
      [] a.k = "-inf" -> PInf
      [] a.k = "+inf" -> NInf
      [] OTHER -> NaN

EAdd(a, b) ==
    CASE a.k = "nan" \/ b.k = "nan" -> NaN
      [] a.k = "fin" /\ b.k = "fin" -> Fin(a.v + b.v)
      [] a.k = "fin" -> b
      [] b.k = "fin" -> a
      [] a.k = b.k -> a
      [] OTHER -> NaN

ESub(a, b) == EAdd(a, ENeg(b))

\* c * a for a finite number c
EScale(c, a) ==
    CASE a.k = "nan" -> NaN
      [] a.k = "fin" -> Fin(c * a.v)
      [] c = 0 -> NaN
      [] c > 0 -> a
      [] OTHER -> ENeg(a)

ELe(a, b) ==
    CASE a.k = "nan" \/ b.k = "nan" -> FALSE
      [] a.k = "fin" /\ b.k = "fin" -> a.v <= b.v
      [] a.k = "-inf" -> TRUE
      [] b.k = "+inf" -> TRUE
      [] OTHER -> FALSE

\* np.sqrt of a power value (the powers enumerated are perfect squares)
sqrt(p) == Fin(CHOOSE r \in 0..p : r * r = p)

\* 10 * np.log10 of a power value (the powers enumerated are powers of ten)
db(p) == IF p = 0 THEN NInf ELSE Fin(10 * (CHOOSE d \in 0..p : 10 ^ d = p))

----------------------------------------------------------------------------
(* Values of one call *)

\* The 2-D amplitude array, held by its shape, the least and greatest value of
\* its rows above the DC row, and whether np.flipud has turned it over.
Grid(rows, cols, lo, hi, flipped) ==
    [rows |-> rows, cols |-> cols, lo |-> lo, hi |-> hi, flipped |-> flipped]

\* A fresh matplotlib Axes
NewAxes ==
    [yscale |-> "linear", art |-> <<>>, tight |-> FALSE, xlim |-> <<>>,
     grid |-> "default", xlabel |-> "", ylabel |-> "", title |-> ""]

\* The keyword defaults of spectrogram(); per_lap and clip in tenths
DefaultArgs(data, samp_rate) ==
    [data |-> data, samp_rate |-> samp_rate, per_lap |-> 9, wlen |-> <<>>,
     log |-> FALSE, outfile |-> <<>>, format |-> <<>>, axes |-> <<>>,
     dbscale |-> FALSE, mult |-> <<8>>, title |-> <<>>, show |-> TRUE,
     sphinx |-> FALSE, clip |-> <<0, 10>>]

\* The state of a call on entry
NewFrame(a) ==
    [args |-> a, pc |-> "plan", err |-> "", ret |-> "", fftCalled |-> FALSE,
     samp_rate |-> 0, wlen |-> 0, npts |-> 0, nfft |-> 0, mult |-> <<>>,
     nlap |-> 0, end |-> <<>>, S |-> Grid(0, 0, Fin(0), Fin(0), FALSE),
     freq |-> <<>>, time |-> <<>>, vmin |-> Fin(0), vmax |-> Fin(0),
     norm |-> <<>>, fig |-> 0, ax |-> "", halfbin_time |-> 0,
     halfbin_freq |-> 0, extent |-> <<>>, temp |-> ""]

IdleFrame == [NewFrame(DefaultArgs([npts |-> 1, lo |-> 0, hi |-> 0], 1)) EXCEPT !.pc = "idle"]

Fail(f, e) == [f EXCEPT !.pc = "failed", !.err = e]

ClipError == "ValueError: Invalid parameters for clip option."

----------------------------------------------------------------------------
(* The stages of spectrogram() that touch only the call's own values *)

\* wlen * samp_rate as a fixed-point number, wlen being the window length in
\* hundredths of a second after the default has been applied
TargetLength(a) ==
    LET wlen == IF a.wlen = <<>> \/ a.wlen = <<0>> THEN a.samp_rate ELSE a.wlen[1]
    IN  (FP * wlen * a.samp_rate) \div 100

\* nfft after the fallback
PlanNfft(x, npts) ==
    LET nfft == int(nearestPow2(x))
    IN  IF nfft > npts THEN int(nearestPow2((FP * npts) \div 8)) ELSE nfft

\* np.log2 of 0 is -inf and of a negative number nan: M.ceil or int() then
\* raises (OverflowError, ValueError), or the call gets as far as
\* npts / samp_rate with samp_rate = 0.0 (ZeroDivisionError).
PlanStage(f) ==
    LET a == f.args
        x == TargetLength(a)
        npts == a.data.npts
        nfft == PlanNfft(x, npts)
    IN  IF x = 0 THEN Fail(f, "ArithmeticError")
        ELSE IF x < 0 THEN Fail(f, "ValueError: cannot convert float NaN to integer")
        ELSE [f EXCEPT !.pc = "estimate",
                       !.samp_rate = a.samp_rate,
                       !.wlen = IF a.wlen = <<>> \/ a.wlen = <<0>>
                                THEN a.samp_rate ELSE a.wlen[1],
                       !.npts = npts,
                       !.nfft = nfft,
                       !.mult = IF a.mult # <<>>
                                THEN <<int(nearestPow2(FP * a.mult[1])) * nfft>>
                                ELSE <<>>,
                       !.nlap = (nfft * a.per_lap) \div 10,
                       !.end = <<npts, a.samp_rate>>]

\* The pad_to that mlab.specgram works with (None: NFFT)
PadTo(f, version) ==
    IF VersionGE(version, <<0, 99, 0>>) /\ f.mult # <<>> THEN f.mult[1] ELSE f.nfft

\* The number of one-sided frequency rows mlab.specgram returns
NumFreqs(f, version) == PadTo(f, version) \div 2 + 1

\* data - data.mean() leaves a constant signal all zero, so every power of it
\* is 0 (data.lo = data.hi = 0).
\* mlab.specgram(data, Fs, NFFT, pad_to, noverlap): segments start at
\* range(0, npts - NFFT + 1, NFFT - noverlap); t = (start + NFFT/2)/Fs;
\* freqs = Fs/pad_to * arange(numFreqs).  NFFT = 0 gives a zero step.
EstimateStage(f, version) ==
    LET step == f.nfft - f.nlap
        sgn == IF f.samp_rate < 0 THEN -1 ELSE 1
        rows == NumFreqs(f, version)
        cols == IF f.npts < f.nfft THEN 1 ELSE (f.npts - f.nfft) \div step + 1
        called == [f EXCEPT !.fftCalled = TRUE]
    IN  IF f.nfft = 0 THEN Fail(called, "EstimatorError")
        ELSE [called EXCEPT
                !.pc = "transform",
                !.S = Grid(rows, cols, Fin(f.args.data.lo), Fin(f.args.data.hi), FALSE),
                !.freq = [i \in 1..rows |-> sgn * 2 * (i - 1)],
                !.time = [j \in 1..cols |-> sgn * (2 * (j - 1) * step + f.nfft)]]

DropDCNot(S, dbscale) ==
    Grid(S.rows, S.cols,
         IF dbscale THEN db(S.lo.v) ELSE sqrt(S.lo.v),
         IF dbscale THEN db(S.hi.v) ELSE sqrt(S.hi.v), S.flipped)

\* 10 * np.log10(spectrogram[1:, :]) or np.sqrt(spectrogram[1:, :])
DropDC(S, dbscale) ==
    Grid(S.rows - 1, S.cols,
         IF dbscale THEN db(S.lo.v) ELSE sqrt(S.lo.v),
         IF dbscale THEN db(S.hi.v) ELSE sqrt(S.hi.v), S.flipped)

TransformStage(f) ==
    [f EXCEPT !.pc = "normalize",
              !.S = DropDC(f.S, f.args.dbscale),
              !.freq = Tail(f.freq)]

\* the test of the clip pair, in tenths
ClipInvalid(vmin, vmax) == vmin < 0 \/ vmax > 10 \/ vmin >= vmax

\* spectrogram.min() + frac * range, in tenths of the amplitude unit
ClipBound(S, frac) == EAdd(EScale(10, S.lo), EScale(frac, ESub(S.hi, S.lo)))

\* max() and min() of an empty array raise ValueError
NormalizeStage(f) ==
    LET vmin == f.args.clip[1]
        vmax == f.args.clip[2]
    IN  IF ClipInvalid(vmin, vmax) THEN Fail(f, ClipError)
        ELSE IF f.S.rows = 0 \/ f.S.cols = 0
        THEN Fail(f, "ValueError: zero-size array")
        ELSE [f EXCEPT !.pc = "surface",
                       !.vmin = ClipBound(f.S, vmin),
                       !.vmax = ClipBound(f.S, vmax),
                       !.norm = <<ClipBound(f.S, vmin), ClipBound(f.S, vmax)>>]

\* (v[1] - v[0]) / 2.0
HalfBin(v) == (v[2] - v[1]) \div 2

HalfbinStage(f) ==
    IF Len(f.time) < 2 \/ Len(f.freq) < 2 THEN Fail(f, "IndexError")
    ELSE [f EXCEPT !.pc = "plot",
                   !.halfbin_time = HalfBin(f.time),
                   !.halfbin_freq = HalfBin(f.freq)]

LogEdgesNoShift(v, halfbin) == Append(v, Last(v) + 2 * halfbin)

\* np.concatenate((v, [v[-1] + 2 * halfbin])) followed by v -= halfbin
LogEdges(v, halfbin) ==
    LET w == Append(v, Last(v) + 2 * halfbin)
    IN  [i \in 1..Len(w) |-> w[i] - halfbin]

Extent(f) ==
    <<f.time[1] - f.halfbin_time, Last(f.time) + f.halfbin_time,
      f.freq[1] - f.halfbin_freq, Last(f.freq) + f.halfbin_freq>>

\* The locals after the branch on log
PlotStage(f) ==
    IF f.args.log
    THEN [f EXCEPT !.pc = "tight",
                   !.freq = LogEdges(f.freq, f.halfbin_freq),
                   !.time = LogEdges(f.time, f.halfbin_time)]
    ELSE [f EXCEPT !.pc = "tight",
                   !.S = [f.S EXCEPT !.flipped = ~f.S.flipped],
                   !.extent = Extent(f)]

\* The draw call made on ax, g being the locals after the branch on log
DrawCall(g, version) ==
    IF g.args.log
    THEN [call |-> IF VersionGE(version, <<0, 98, 3>>) THEN "pcolormesh" ELSE "pcolor",
          x |-> g.time, y |-> g.freq, extent |-> <<>>, S |-> g.S, norm |-> g.norm]
    ELSE [call |-> "imshow", x |-> <<>>, y |-> <<>>, extent |-> g.extent,
          S |-> g.S, norm |-> <<>>]

----------------------------------------------------------------------------
(* The steps of a call of spectrogram() on thread t *)

SetFrame(t, f) == frame' = [frame EXCEPT ![t] = f]

\* The Axes object that ax refers to
AxOf(t) == IF frame[t].ax = "caller" THEN callerAx[t] ELSE figs[frame[t].fig]

SetAx(t, c) ==
    IF frame[t].ax = "caller"
    THEN callerAx' = [callerAx EXCEPT ![t] = c] /\ UNCHANGED figs
    ELSE figs' = [figs EXCEPT ![frame[t].fig] = c] /\ UNCHANGED callerAx

Plan(t) ==
    /\ frame[t].pc = "plan"
    /\ SetFrame(t, PlanStage(frame[t]))
    /\ UNCHANGED <<mplVersion, figs, gcf, callerAx, nperr, nperr0, drawn, saved, shown>>
    /\ UNCHANGED others

Estimate(t) ==
    /\ frame[t].pc = "estimate"
    /\ SetFrame(t, EstimateStage(frame[t], mplVersion))
    /\ UNCHANGED <<mplVersion, figs, gcf, callerAx, nperr, nperr0, drawn, saved, shown>>
    /\ UNCHANGED others

Transform(t) ==
    /\ frame[t].pc = "transform"
    /\ SetFrame(t, TransformStage(frame[t]))
    /\ UNCHANGED <<mplVersion, figs, gcf, callerAx, nperr, nperr0, drawn, saved, shown>>
    /\ UNCHANGED others

Normalize(t) ==
    /\ frame[t].pc = "normalize"
    /\ SetFrame(t, NormalizeStage(frame[t]))
    /\ UNCHANGED <<mplVersion, figs, gcf, callerAx, nperr, nperr0, drawn, saved, shown>>
    /\ UNCHANGED others

\* if not axes: plt.figure() registers a new figure and makes it the current one
Surface(t) ==
    /\ frame[t].pc = "surface"
    /\ IF frame[t].args.axes = <<>>
       THEN /\ figs' = Append(figs, NewAxes)
            /\ gcf' = Len(figs) + 1
            /\ SetFrame(t, [frame[t] EXCEPT !.pc = "halfbin", !.fig = Len(figs) + 1,
                                            !.ax = "own"])
       ELSE /\ SetFrame(t, [frame[t] EXCEPT !.pc = "halfbin", !.ax = "caller"])
            /\ UNCHANGED <<figs, gcf>>
    /\ UNCHANGED <<mplVersion, callerAx, nperr, nperr0, drawn, saved, shown>>
    /\ UNCHANGED others

Halfbin(t) ==
    /\ frame[t].pc = "halfbin"
    /\ SetFrame(t, HalfbinStage(frame[t]))
    /\ UNCHANGED <<mplVersion, figs, gcf, callerAx, nperr, nperr0, drawn, saved, shown>>
    /\ UNCHANGED others

\* ax.set_yscale('log') or ax.semilogy() in the log branch, and the draw call
Plot(t) ==
    /\ frame[t].pc = "plot"
    /\ LET g == PlotStage(frame[t])
       IN  /\ SetFrame(t, g)
           /\ SetAx(t, [AxOf(t) EXCEPT
                          !.yscale = IF g.args.log THEN "log" ELSE @,
                          !.art = Append(@, DrawCall(g, mplVersion))])
    /\ UNCHANGED <<mplVersion, gcf, nperr, nperr0, drawn, saved, shown>>
    /\ UNCHANGED others

ReturnsAxNever(axes) == FALSE

\* if axes: return ax
ReturnsAx(axes) == axes # <<>>

Tight(t) ==
    /\ frame[t].pc = "tight"
    /\ SetAx(t, [AxOf(t) EXCEPT !.tight = TRUE, !.xlim = <<0, frame[t].end>>,
                                !.grid = "off"])
    /\ IF ReturnsAx(frame[t].args.axes)
       THEN SetFrame(t, [frame[t] EXCEPT !.pc = "done", !.ret = "ax"])
       ELSE SetFrame(t, [frame[t] EXCEPT !.pc = "labels"])
    /\ UNCHANGED <<mplVersion, gcf, nperr, nperr0, drawn, saved, shown>>
    /\ UNCHANGED others

Labels(t) ==
    /\ frame[t].pc = "labels"
    /\ SetAx(t, [AxOf(t) EXCEPT
                   !.xlabel = "Time [s]", !.ylabel = "Frequency [Hz]",
                   !.title = IF frame[t].args.title # <<>>
                             THEN frame[t].args.title[1] ELSE @])
    /\ SetFrame(t, [frame[t] EXCEPT !.pc = "geterr"])
    /\ UNCHANGED <<mplVersion, gcf, nperr, nperr0, drawn, saved, shown>>
    /\ UNCHANGED others

\* if not sphinx: temp = np.geterr()
Geterr(t) ==
    /\ frame[t].pc = "geterr"
    /\ IF frame[t].args.sphinx
       THEN SetFrame(t, [frame[t] EXCEPT !.pc = "output"])
       ELSE SetFrame(t, [frame[t] EXCEPT !.pc = "seterr", !.temp = nperr[t]])
    /\ UNCHANGED <<mplVersion, figs, gcf, callerAx, nperr, nperr0, drawn, saved, shown>>
    /\ UNCHANGED others

\* np.seterr(all='ignore'); numpy documents its error handling as set on a
\* per-thread basis, so the setting is held per thread
Seterr(t) ==
    /\ frame[t].pc = "seterr"
    /\ nperr' = [nperr EXCEPT ![t] = "ignore"]
    /\ SetFrame(t, [frame[t] EXCEPT !.pc = "draw"])
    /\ UNCHANGED <<mplVersion, figs, gcf, callerAx, nperr0, drawn, saved, shown>>
    /\ UNCHANGED others

\* plt.draw() redraws pyplot's current figure
Draw(t) ==
    /\ frame[t].pc = "draw"
    /\ drawn' = drawn \cup {[by |-> t, fig |-> gcf]}
    /\ SetFrame(t, [frame[t] EXCEPT !.pc = "restore"])
    /\ UNCHANGED <<mplVersion, figs, gcf, callerAx, nperr, nperr0, saved, shown>>
    /\ UNCHANGED others

\* np.seterr(**temp)
Restore(t) ==
    /\ frame[t].pc = "restore"
    /\ nperr' = [nperr EXCEPT ![t] = frame[t].temp]
    /\ SetFrame(t, [frame[t] EXCEPT !.pc = "output"])
    /\ UNCHANGED <<mplVersion, figs, gcf, callerAx, nperr0, drawn, saved, shown>>
    /\ UNCHANGED others

\* fig.savefig() writes the call's own figure; plt.show() displays every
\* figure pyplot has registered
Output(t) ==
    /\ frame[t].pc = "output"
    /\ LET a == frame[t].args
       IN  IF a.outfile # <<>>
           THEN /\ saved' = saved \cup {[by |-> t, fig |-> frame[t].fig,
                                         outfile |-> a.outfile[1], format |-> a.format]}
                /\ UNCHANGED shown
           ELSE IF a.show
           THEN /\ shown' = shown \cup {[by |-> t, figs |-> 1..Len(figs)]}
                /\ UNCHANGED saved
           ELSE UNCHANGED <<saved, shown>>
    /\ SetFrame(t, [frame[t] EXCEPT !.pc = "done", !.ret = "fig"])
    /\ UNCHANGED <<mplVersion, figs, gcf, callerAx, nperr, nperr0, drawn>>
    /\ UNCHANGED others

Step(t) ==
    \/ Plan(t) \/ Estimate(t) \/ Transform(t) \/ Normalize(t) \/ Surface(t)
    \/ Halfbin(t) \/ Plot(t) \/ Tight(t) \/ Labels(t) \/ Geterr(t)
    \/ Seterr(t) \/ Draw(t) \/ Restore(t) \/ Output(t)

----------------------------------------------------------------------------
(* Calls enumerated *)

Versions == {<<0, 98, 1>>, <<0, 98, 3>>, <<0, 99, 0>>}

\* data: its length and the least and greatest power above the DC row that
\* the estimator finds in it ((0, 0): a constant signal)
Signals(lengths) ==
    {[npts |-> n, lo |-> p[1], hi |-> p[2]] :
        n \in lengths, p \in {<<0, 0>>, <<0, 100>>, <<1, 100>>}}

ClipPairs == {<<5, 3>>, <<-1, 10>>, <<0, 12>>, <<0, 10>>, <<1, 9>>, <<5, 5>>}

\* calls that vary the numerical arguments
NumericArgs ==
    {[DefaultArgs(d, sr) EXCEPT !.wlen = w, !.mult = m, !.dbscale = dbs,
                                !.clip = c, !.log = lg] :
        d \in Signals({1, 7, 16, 100, 1000}), sr \in {-100, 0, 5, 100},
        w \in {<<>>, <<50>>}, m \in {<<>>, <<8>>, <<3>>}, dbs \in BOOLEAN,
        c \in ClipPairs, lg \in BOOLEAN}

\* calls that vary the rendering arguments
RenderArgs ==
    {[DefaultArgs([npts |-> 100, lo |-> 1, hi |-> 100], 100) EXCEPT
        !.axes = ax, !.outfile = o, !.format = fm, !.show = sh, !.sphinx = sx,
        !.title = ti, !.log = lg] :
        ax \in {<<>>, <<"ax">>}, o \in {<<>>, <<"out">>}, fm \in {<<>>, <<"png">>},
        sh \in BOOLEAN, sx \in BOOLEAN, ti \in {<<>>, <<"title">>}, lg \in BOOLEAN}

InitShared(version, errs) ==
    /\ mplVersion = version
    /\ figs = <<>>
    /\ gcf = 0
    /\ callerAx = [t \in Threads |-> NewAxes]
    /\ nperr = errs
    /\ nperr0 = errs
    /\ drawn = {}
    /\ saved = {}
    /\ shown = {}

IdleOthers ==
    /\ px = 0
    /\ pres = 0
    /\ bfreq = <<>>
    /\ btime = <<>>

Init ==
    /\ IdleOthers
    /\ \/ \E a \in NumericArgs, v \in Versions :
            /\ frame = [t \in Threads |-> IF t = 1 THEN NewFrame(a) ELSE IdleFrame]
            /\ InitShared(v, [t \in Threads |-> "warn"])
       \/ \E a \in RenderArgs, v \in Versions, e \in {"warn", "raise"} :
            /\ frame = [t \in Threads |-> IF t = 1 THEN NewFrame(a) ELSE IdleFrame]
            /\ InitShared(v, [t \in Threads |-> e])

Next == Step(1)

Spec == Init /\ [][Next]_vars

----------------------------------------------------------------------------
(* nearestPow2 applied on its own to every x in (0, MaxX], in steps of 1/FP *)

InitPow2 ==
    /\ px \in 1..(MaxX * FP)
    /\ pres = 0
    /\ bfreq = <<>>
    /\ btime = <<>>
    /\ frame = [t \in Threads |-> IdleFrame]
    /\ \E v \in Versions : InitShared(v, [t \in Threads |-> "warn"])

ApplyNearestPow2 ==
    /\ pres = 0
    /\ pres' = nearestPow2(px)
    /\ UNCHANGED <<px, bfreq, btime>>
    /\ UNCHANGED callVars

SpecPow2 == InitPow2 /\ [][ApplyNearestPow2]_vars

----------------------------------------------------------------------------
(* The axis binner applied on its own to every pair of strictly ascending   *)
(* vectors of 2..MaxLen bin positions among 0, 2, .., 2 * MaxPos            *)

Ascending(v) == \A i \in 1..(Len(v) - 1) : v[i] < v[i + 1]

BinVectors ==
    {v \in UNION {[1..n -> {2 * k : k \in 0..MaxPos}] : n \in 2..MaxLen} : Ascending(v)}

\* a call in logarithmic mode that has reached the half-bin computation
BinnerFrame(freq, time) ==
    [NewFrame([DefaultArgs([npts |-> 100, lo |-> 1, hi |-> 100], 100) EXCEPT !.log = TRUE])
        EXCEPT !.pc = "halfbin", !.samp_rate = 100, !.npts = 100,
               !.end = <<100, 100>>, !.fftCalled = TRUE,
               !.S = Grid(Len(freq), Len(time), Fin(1), Fin(10), FALSE),
               !.freq = freq, !.time = time,
               !.vmin = Fin(10), !.vmax = Fin(100), !.norm = <<Fin(10), Fin(100)>>,
               !.fig = 1, !.ax = "own"]

InitBinner ==
    /\ px = 0
    /\ pres = 0
    /\ bfreq \in BinVectors
    /\ btime \in BinVectors
    /\ frame = [t \in Threads |-> IF t = 1 THEN BinnerFrame(bfreq, btime) ELSE IdleFrame]
    /\ \E v \in Versions :
         /\ mplVersion = v
         /\ figs = <<NewAxes>>
         /\ gcf = 1
         /\ callerAx = [t \in Threads |-> NewAxes]
         /\ nperr = [t \in Threads |-> "warn"]
         /\ nperr0 = nperr
         /\ drawn = {}
         /\ saved = {}
         /\ shown = {}

NextBinner == Halfbin(1) \/ Plot(1)

SpecBinner == InitBinner /\ [][NextBinner]_vars

----------------------------------------------------------------------------
(* Two calls on two threads, interleaved statement by statement *)

ConcArgs ==
    {[DefaultArgs([npts |-> 100, lo |-> 1, hi |-> 100], 100) EXCEPT
        !.axes = ax, !.outfile = o, !.show = sh] :
        ax \in {<<>>, <<"ax">>}, o \in {<<>>, <<"out">>}, sh \in BOOLEAN}

InitConc ==
    /\ IdleOthers
    /\ frame \in [Threads -> {NewFrame(a) : a \in ConcArgs}]
    /\ \E errs \in [Threads -> {"warn", "raise"}] : InitShared(<<0, 99, 0>>, errs)

NextConc == \E t \in Threads : Step(t)

SpecConc == InitConc /\ [][NextConc]_vars

----------------------------------------------------------------------------
(* Properties *)

call == frame[1]

IsPowerOfTwo(n) == \E e \in 0..(MaxExp + FPBits) : n = 2 ^ e

ValueErrors ==
    {ClipError, "ValueError: cannot convert float NaN to integer",
     "ValueError: zero-size array"}

AfterNormalize ==
    {"surface", "halfbin", "plot", "tight", "labels", "geterr", "seterr", "draw",
     "restore", "output", "done"}

AfterPlot == {"tight", "labels", "geterr", "seterr", "draw", "restore", "output", "done"}

\* the clip pair as the claim words it, in tenths
ClipRejected(c) == c[1] < 0 \/ c[2] > 10 \/ c[1] >= c[2]

\* C1: for every x > 0 nearestPow2(x) is a power of two, no power of two is
\* strictly closer to x, of two equally distant powers it is the smaller, and
\* nearestPow2(3) = 2, nearestPow2(15) = 16, nearestPow2(8) = 8.
NearestPow2IsNearest ==
    pres # 0 =>
        /\ \E e \in Exps : pres = Pow2FP(e)
        /\ \A e \in Exps : Abs(Pow2FP(e) - px) >= Abs(pres - px)
        /\ \A e \in Exps : Abs(Pow2FP(e) - px) = Abs(pres - px) => pres <= Pow2FP(e)
        /\ (px = 3 * FP => pres = 2 * FP)
        /\ (px = 15 * FP => pres = 16 * FP)
        /\ (px = 8 * FP => pres = 8 * FP)

\* nearestPow2 has been applied to 3, which lies midway between 2 and 4
NearestPow2TieSeen == px = 3 * FP /\ pres = 2 * FP

\* C2: once the plan is made, nfft is a power of two and nfft <= npts, and for
\* npts = 100 a request whose nearest power of two exceeds 100 gets nfft = 16.
NfftPowerOfTwoWithinSignal ==
    call.pc = "estimate" =>
        /\ IsPowerOfTwo(call.nfft)
        /\ call.nfft <= call.npts
        /\ (call.npts = 100 /\ int(nearestPow2(TargetLength(call.args))) > 100
               => call.nfft = 16)

\* C3: the call fails with the clip ValueError only for a pair with low < 0,
\* high > 1 or low >= high, and the clip check, once executed, raises it for
\* exactly those pairs: (0.5, 0.3), (-0.1, 1.0), (0.0, 1.2) are rejected and
\* (0.0, 1.0), (0.1, 0.9) accepted; for an accepted pair
\* vmin = min + low * (max - min), vmax = min + high * (max - min), vmin <= vmax.
ClipCheckAndBounds ==
    LET c == call.args.clip
        ran == call.pc \in AfterNormalize \/ (call.pc = "failed" /\ call.fftCalled
                                               /\ call.err # "EstimatorError")
    IN  /\ (call.err = ClipError => ClipRejected(c))
        /\ (ran => (call.err = ClipError <=> ClipRejected(c)))
        /\ (ran /\ c \in {<<5, 3>>, <<-1, 10>>, <<0, 12>>} => call.err = ClipError)
        /\ (ran /\ c \in {<<0, 10>>, <<1, 9>>} => call.err # ClipError)
        /\ (call.pc \in AfterNormalize =>
               /\ call.vmin = EAdd(EScale(10, call.S.lo), EScale(c[1], ESub(call.S.hi, call.S.lo)))
               /\ call.vmax = EAdd(EScale(10, call.S.lo), EScale(c[2], ESub(call.S.hi, call.S.lo)))
               /\ ELe(call.vmin, call.vmax))

\* 1000 samples at 100 Hz, wlen unset, per_lap = 0.9, every other option at
\* its default
EndToEnd(a) == \E d \in Signals({1000}) : a = DefaultArgs(d, 100)

\* C4 as stated: in the end-to-end call nfft = 128 and noverlap = 115, the raw
\* spectrum has 65 = nfft/2 + 1 frequency rows and the scaled spectrum 64.
EndToEndRows65 ==
    EndToEnd(call.args) =>
        /\ (call.pc = "estimate" => call.nfft = 128 /\ call.nlap = 115)
        /\ (call.pc = "transform" =>
               /\ call.S.rows = 65
               /\ Len(call.freq) = 65
               /\ call.S.rows = call.nfft \div 2 + 1)
        /\ (call.pc = "normalize" => call.S.rows = 64 /\ Len(call.freq) = 64)

\* C4 as amended: in the end-to-end call nfft = 128, noverlap = 115 and
\* pad_to = 8 * 128 = 1024; the raw spectrum has pad_to/2 + 1 = 513 frequency
\* rows where mlab.specgram takes pad_to (matplotlib >= 0.99.0) and
\* nfft/2 + 1 = 65 rows otherwise; the scaled spectrum has one row fewer.
EndToEndRowsPadded ==
    LET raw == IF VersionGE(mplVersion, <<0, 99, 0>>) THEN 513 ELSE 65
    IN  EndToEnd(call.args) =>
            /\ (call.pc = "estimate" =>
                   call.nfft = 128 /\ call.nlap = 115 /\ call.mult = <<1024>>)
            /\ (call.pc = "transform" => call.S.rows = raw /\ Len(call.freq) = raw)
            /\ (call.pc = "normalize" =>
                   call.S.rows = raw - 1 /\ Len(call.freq) = raw - 1)

\* the end-to-end call has dropped the DC row of a zero-padded spectrum
EndToEndTransformed ==
    EndToEnd(call.args) /\ call.pc = "normalize" /\ call.S.rows = 512

EdgesOf(e, v) ==
    /\ Len(e) = Len(v) + 1
    /\ Ascending(e)
    /\ \A i \in 1..Len(v) : 2 * (v[i] - e[i]) = v[2] - v[1]
    /\ 2 * (Last(e) - Last(v)) = v[2] - v[1]

\* C5: in logarithmic mode, for strictly ascending freq and time vectors of at
\* least two entries, each edge vector is one longer than its vector, strictly
\* increasing, edge i is bin position i minus the half-bin width and the last
\* edge is the last bin position plus the half-bin width.
LogEdgesBinCentred ==
    call.pc = "tight" /\ call.args.log =>
        /\ EdgesOf(call.freq, bfreq)
        /\ EdgesOf(call.time, btime)

\* edges have been built for unevenly spaced bin positions
LogEdgesBuilt ==
    /\ call.pc = "tight"
    /\ call.args.log
    /\ Len(bfreq) = 3
    /\ bfreq[3] - bfreq[2] # bfreq[2] - bfreq[1]
    /\ Len(call.freq) = 4

\* C6: with axes supplied no figure is created, the plot goes into the
\* supplied axes, which is returned, and no label, title, draw, save or show
\* follows; without axes a figure is created and returned, saved if outfile
\* is given and otherwise shown only if show is true.
SuppliedAxesReturnsEarly ==
    LET a == call.args
    IN  /\ a.axes # <<>> =>
              /\ figs = <<>> /\ gcf = 0
              /\ drawn = {} /\ saved = {} /\ shown = {}
              /\ callerAx[1].xlabel = "" /\ callerAx[1].ylabel = ""
              /\ callerAx[1].title = ""
              /\ call.pc \notin {"labels", "geterr", "seterr", "draw", "restore", "output"}
              /\ (call.pc = "done" =>
                     /\ call.ret = "ax" /\ call.ax = "caller"
                     /\ Len(callerAx[1].art) = 1)
        /\ a.axes = <<>> /\ call.pc = "done" =>
              /\ call.ret = "fig" /\ call.fig = 1 /\ Len(figs) = 1
              /\ Len(figs[1].art) = 1
              /\ callerAx[1] = NewAxes
              /\ (a.outfile # <<>> =>
                     /\ saved = {[by |-> 1, fig |-> 1, outfile |-> a.outfile[1],
                                  format |-> a.format]}
                     /\ shown = {})
              /\ (a.outfile = <<>> => saved = {} /\ (shown # {} <=> a.show))

\* a call given axes, an outfile and show = True has returned
SuppliedAxesDone ==
    /\ call.pc = "done"
    /\ call.args.axes # <<>>
    /\ call.args.outfile # <<>>
    /\ call.args.show
    /\ call.ret = "ax"

\* C7: a call with samp_rate <= 0 fails with the invalid-parameter error
\* (a ValueError) and produces no result.
NonPositiveRateRejected ==
    call.args.samp_rate <= 0 /\ call.pc \notin {"idle", "plan"} =>
        call.pc = "failed" /\ call.err \in ValueErrors

\* C8: no validation error is reported after mlab.specgram has been called.
ValidationBeforeFFT ==
    \A t \in Threads :
        frame[t].err \in {ClipError, "ValueError: cannot convert float NaN to integer"}
            => ~frame[t].fftCalled

\* C9: whatever the interleaving of two calls, each call does what it does
\* when run alone (its plt.draw() redraws the figure it created and its
\* plt.show() displays that figure alone), and once both calls have finished
\* numpy's error setting is what it was before either started.
CallsIndependent ==
    /\ \A d \in drawn : d.fig = frame[d.by].fig
    /\ \A s \in shown : s.figs = {frame[s.by].fig}
    /\ ((\A t \in Threads : frame[t].pc \in {"done", "failed"}) => nperr = nperr0)

\* C10: in both axis modes the draw call is given the norm made of vmin and
\* vmax, and exactly one axis variant is produced: edge vectors, or an extent
\* with the grid flipped.
NormHandedToDraw ==
    call.pc \in AfterPlot =>
        LET d == Last(AxOf(1).art)
        IN  /\ d.norm = <<call.vmin, call.vmax>>
            /\ (d.extent = <<>>) # (d.x = <<>>)
            /\ (d.extent # <<>> => d.S.flipped)

====
